---- MODULE Spec2Model ----
(***************************************************************************)
(* Model of assign_reviewers (src/submissions/01/submissions.py): the      *)
(* load-balanced greedy assignment of k PC members to every paper, run     *)
(* over a possibly pre-populated assignment dictionary.                    *)
(*                                                                         *)
(* A call is modelled in steps: the call itself (validation, the random    *)
(* source, the initial load scan: lines 76-82), one step per iteration of  *)
(* the loop over the papers (lines 84-103) and the return (line 105).      *)
(* The program is single threaded, so one call runs at a time.             *)
(*                                                                         *)
(* PC members are 1..NumCand, papers are 1..NumItems.  A dictionary is a   *)
(* function from the papers it holds to sequences of PC members.           *)
(***************************************************************************)
EXTENDS Integers, Sequences, FiniteSets, TLC

\* ---- bounds of the exploration ------------------------------------------
NumCand == 4
NumItems == 2
MaxItems == 2
MaxK == 2
MaxPre == 2
NumSeeds == 1

\* ---- values ---------------------------------------------------------------
Cand == 1..NumCand
Items == 1..NumItems

\* Python's None for the optional seed; an integer seed n is <<n>>.
None == <<>>
Seeds == {None} \cup {<<n>> : n \in 1..NumSeeds}

EmptyMap == <<>>

Range(s) == {s[i] : i \in 1..Len(s)}

IsInjective(s) == \A i, j \in 1..Len(s) : s[i] = s[j] => i = j

\* The pools the calls are made with: the first n PC members, in order.
Pools == {[i \in 1..n |-> i] : n \in 1..NumCand}

\* The paper lists the calls are made with (a paper may be listed twice).
ItemLists == UNION {[1..n -> Items] : n \in 0..MaxItems}

\* The numbers of reviewers per paper the calls ask for.
Ks == 1..MaxK

\* Pre-existing reviewer sequences: distinct members of the pool.
PreSeqs(pc_members) ==
    {s \in UNION {[1..n -> Range(pc_members)] : n \in 0..MaxPre} : IsInjective(s)}

\* The dictionaries a caller passes: some papers, each with such a sequence.
StartMaps(pc_members) ==
    UNION {[D -> PreSeqs(pc_members)] : D \in SUBSET Items}

\* ---- the random source (random.Random, lines 78 and 96) -------------------
\* A seeded generator is a deterministic stream, modelled by a small linear
\* congruential generator; an unseeded one draws from the system's entropy
\* and any draw is possible.
RngMod == 31
RngMul == 7
RngInc == 3

RngStep(s) == (RngMul * s + RngInc) % RngMod

RECURSIVE RngAfter(_, _)
RngAfter(s, t) == IF t <= 0 THEN s ELSE RngAfter(RngStep(s), t - 1)

EntropyRng == [seeded |-> FALSE, state |-> 0]

\* mutant: the seed is ignored, the generator is seeded from entropy
NewRngIgnoringSeed(seed) == EntropyRng

\* rng = random.Random(seed)
NewRng(seed) ==
    IF seed = None THEN EntropyRng
    ELSE [seeded |-> TRUE, state |-> seed[1] % RngMod]

\* The draws of one rng.shuffle of a list of n elements: d[i], for the
\* 0-based index i = n-1 down to 1, is randbelow(i + 1).
Draws(rng, n) ==
    IF rng.seeded
    THEN {[i \in 1..(n - 1) |-> RngAfter(rng.state, n - i) % (i + 1)]}
    ELSE {d \in [1..(n - 1) -> 0..(n - 1)] : \A i \in 1..(n - 1) : d[i] <= i}

RngAfterShuffle(rng, n) ==
    IF rng.seeded /\ n > 1
    THEN [rng EXCEPT !.state = RngAfter(rng.state, n - 1)]
    ELSE rng

Swap(x, a, b) == [x EXCEPT ![a] = x[b], ![b] = x[a]]

\* random.shuffle: for i in reversed(range(1, len(x))): swap x[i], x[j]
RECURSIVE ShuffleFrom(_, _, _)
ShuffleFrom(x, d, i) ==
    IF i < 1 THEN x ELSE ShuffleFrom(Swap(x, i + 1, d[i] + 1), d, i - 1)

Shuffle(x, d) == ShuffleFrom(x, d, Len(x) - 1)

\* ---- list helpers ----------------------------------------------------------
\* x[:m] of Python: a negative m counts from the end.
PySlicePrefix(x, m) ==
    LET n == IF m >= 0 THEN (IF m < Len(x) THEN m ELSE Len(x))
             ELSE (IF Len(x) + m > 0 THEN Len(x) + m ELSE 0)
    IN  SubSeq(x, 1, n)

\* list.remove(v): drops the first occurrence (the caller checks presence).
RemoveFirst(x, v) ==
    LET i == CHOOSE j \in 1..Len(x) : x[j] = v /\ \A h \in 1..(j - 1) : x[h] # v
    IN  SubSeq(x, 1, i - 1) \o SubSeq(x, i + 1, Len(x))

\* for candidate in assignments[paper]: candidates.remove(candidate)
\* ok is FALSE when a remove raises ValueError.
RECURSIVE RemoveAll(_, _)
RemoveAll(candidates, assigned) ==
    IF assigned = <<>> THEN [ok |-> TRUE, list |-> candidates]
    ELSE IF Head(assigned) \notin Range(candidates)
         THEN [ok |-> FALSE, list |-> candidates]
         ELSE RemoveAll(RemoveFirst(candidates, Head(assigned)), Tail(assigned))

\* One insertion of the stable sort: m goes after every element whose key
\* is not greater than its own.
InsertStable(sorted, m, load) ==
    LET p == Cardinality({i \in 1..Len(sorted) : load[sorted[i]] <= load[m]})
    IN  SubSeq(sorted, 1, p) \o <<m>> \o SubSeq(sorted, p + 1, Len(sorted))

RECURSIVE SortFrom(_, _, _)
SortFrom(sorted, rest, load) ==
    IF rest = <<>> THEN sorted
    ELSE SortFrom(InsertStable(sorted, Head(rest), load), Tail(rest), load)

\* mutant: the candidates are left in shuffled order
SortByLoadOmitted(candidates, load) == candidates

\* candidates.sort(key=lambda m: load[m])
SortByLoad(candidates, load) == SortFrom(<<>>, candidates, load)

\* ---- the steps of assign_reviewers ------------------------------------------
\* mutant: the length of the paper list is validated instead of the pool's
ValidateFailsOnPapers(pc_members, papers, kk) == Len(papers) < kk

\* validate_inputs raises ValueError
ValidateFails(pc_members, papers, kk) == Len(pc_members) < kk

\* load[reviewer] += 1 raises KeyError for a reviewer outside the pool.
LoadScanFails(pc_members, asg) ==
    \E p \in DOMAIN asg : ~(Range(asg[p]) \subseteq Range(pc_members))

\* for reviewer in reviewers: load[reviewer] += 1
RECURSIVE CountReviewers(_, _)
CountReviewers(ld, reviewers) ==
    IF reviewers = <<>> THEN ld
    ELSE CountReviewers([ld EXCEPT ![Head(reviewers)] = @ + 1], Tail(reviewers))

\* for paper, reviewers in assignments.items(): ...
RECURSIVE ScanPapers(_, _, _)
ScanPapers(ld, asg, D) ==
    IF D = {} THEN ld
    ELSE LET p == CHOOSE q \in D : TRUE
         IN  ScanPapers(CountReviewers(ld, asg[p]), asg, D \ {p})

\* The load after the scan of the dictionary (lines 79-82).
InitialLoad(pc_members, asg) ==
    ScanPapers([m \in Range(pc_members) |-> 0], asg, DOMAIN asg)

\* mutant: the paper's list is reset without looking at the dictionary
PaperEntryAlwaysReset(asg, paper, kk) ==
    [skip |-> FALSE,
     asg  |-> [p \in DOMAIN asg \cup {paper} |->
                  IF p = paper THEN <<>> ELSE asg[p]]]

\* Lines 85-89: a paper that has exactly k reviewers is skipped, a paper
\* the dictionary does not hold gets an empty list.
PaperEntry(asg, paper, kk) ==
    IF paper \in DOMAIN asg
    THEN [skip |-> Len(asg[paper]) = kk, asg |-> asg]
    ELSE [skip |-> FALSE,
          asg  |-> [p \in DOMAIN asg \cup {paper} |->
                       IF p = paper THEN <<>> ELSE asg[p]]]

\* mutant: the reviewers the paper already has are not subtracted
SelectedIgnoringAssigned(candidates, kk, assigned) == PySlicePrefix(candidates, kk)

\* selected = candidates[:k-len(assignments[paper])]
Selected(candidates, kk, assigned) == PySlicePrefix(candidates, kk - Len(assigned))

\* mutant: the load of the selected members is not updated
LoadAfterUnchanged(load, selected) == load

\* for member in selected: load[member] += 1
LoadAfter(load, selected) ==
    [m \in DOMAIN load |->
        load[m] + Cardinality({i \in 1..Len(selected) : selected[i] = m})]

\* ---- state -------------------------------------------------------------------
VARIABLES
    pc,           \* "idle": no call runs; "loop": inside the loop of line 84;
                  \* "done": the call has ended and the caller holds its outcome
    pc_members,   \* arguments of the current (or last) call
    papers,
    k,
    seed,
    passed,       \* TRUE when the caller passed the assignments argument
    assignments,  \* the dictionary the parameter is bound to
    default,      \* the dictionary object created once for the default argument
    load,
    rng,
    idx,          \* number of papers the loop has gone through
    outcome,      \* "none", "returned", "ValueError:validate", "KeyError:load",
                  \* "ValueError:remove"
    start,        \* the dictionary as it was when the call was made
    first         \* outcome and result of the run that is being repeated

vars == <<pc, pc_members, papers, k, seed, passed, assignments, default,
          load, rng, idx, outcome, start, first>>

NoRun == [outcome |-> "none", result |-> EmptyMap]

\* Nothing of a call is alive: only the default dictionary persists.
Cleared ==
    /\ pc = "idle"
    /\ pc_members = <<1>>
    /\ papers = <<>>
    /\ k = 0
    /\ seed = None
    /\ passed = TRUE
    /\ assignments = EmptyMap
    /\ load = <<>>
    /\ rng = EntropyRng
    /\ idx = 0
    /\ outcome = "none"
    /\ start = EmptyMap
    /\ first = NoRun

Init == Cleared /\ default = EmptyMap

\* Lines 76-82 for a call with the given arguments, on dictionary asg.
Enter(p, its, kk, sd, asg, given) ==
    /\ pc_members' = p
    /\ papers' = its
    /\ k' = kk
    /\ seed' = sd
    /\ passed' = given
    /\ assignments' = asg
    /\ start' = asg
    /\ idx' = 0
    /\ UNCHANGED default
    /\ IF ValidateFails(p, its, kk)
       THEN /\ outcome' = "ValueError:validate"
            /\ pc' = "done"
            /\ UNCHANGED <<load, rng>>
       ELSE /\ rng' = NewRng(sd)
            /\ IF LoadScanFails(p, asg)
               THEN /\ outcome' = "KeyError:load"
                    /\ pc' = "done"
                    /\ UNCHANGED load
               ELSE /\ outcome' = "none"
                    /\ pc' = "loop"
                    /\ load' = InitialLoad(p, asg)

\* assign_reviewers(pc_members, papers, k, seed, assignments).  Such a call
\* neither reads nor writes the default dictionary, so these calls are
\* explored from the states in which that dictionary is still empty.
CallWithMap ==
    /\ pc = "idle"
    /\ default = EmptyMap
    /\ \E p \in Pools, its \in ItemLists, kk \in Ks, sd \in Seeds :
         \E asg \in StartMaps(p) :
            Enter(p, its, kk, sd, asg, TRUE)
    /\ UNCHANGED first

\* assign_reviewers(pc_members, papers, k, seed): the parameter is bound to
\* the one dictionary that was created when the function was defined.
CallWithDefault ==
    /\ pc = "idle"
    /\ \E p \in Pools, its \in ItemLists, kk \in Ks, sd \in Seeds :
            Enter(p, its, kk, sd, default, FALSE)
    /\ UNCHANGED first

\* The caller repeats a finished seeded call: same arguments, and a
\* dictionary equal to the one the first run started from.
CallAgain ==
    /\ pc = "done"
    /\ passed
    /\ seed # None
    /\ first = NoRun
    /\ first' = [outcome |-> outcome, result |-> assignments]
    /\ Enter(pc_members, papers, k, seed, start, TRUE)

\* One iteration of the loop of line 84 (lines 85-103).
Iterate ==
    /\ pc = "loop"
    /\ idx < Len(papers)
    /\ idx' = idx + 1
    /\ LET paper == papers[idx + 1]
           entry == PaperEntry(assignments, paper, k)
           rem   == RemoveAll(pc_members, entry.asg[paper])
       IN  IF entry.skip
           THEN UNCHANGED <<pc, assignments, default, load, rng, outcome>>
           ELSE IF ~rem.ok
           THEN /\ pc' = "done"
                /\ outcome' = "ValueError:remove"
                /\ assignments' = entry.asg
                /\ default' = IF passed THEN default ELSE entry.asg
                /\ UNCHANGED <<load, rng>>
           ELSE \E d \in Draws(rng, Len(rem.list)) :
                  LET candidates == SortByLoad(Shuffle(rem.list, d), load)
                      selected   == Selected(candidates, k, entry.asg[paper])
                      asg2       == [entry.asg EXCEPT ![paper] = @ \o selected]
                  IN  /\ assignments' = asg2
                      /\ default' = IF passed THEN default ELSE asg2
                      /\ load' = LoadAfter(load, selected)
                      /\ rng' = RngAfterShuffle(rng, Len(rem.list))
                      /\ UNCHANGED <<pc, outcome>>
    /\ UNCHANGED <<pc_members, papers, k, seed, passed, start, first>>

\* return assignments
Return ==
    /\ pc = "loop"
    /\ idx = Len(papers)
    /\ pc' = "done"
    /\ outcome' = "returned"
    /\ UNCHANGED <<pc_members, papers, k, seed, passed, assignments, default,
                   load, rng, idx, start, first>>

\* The caller is through with the outcome of the call; the locals of the
\* call are gone, the default dictionary stays.
Finish ==
    /\ pc = "done"
    /\ pc' = "idle"
    /\ pc_members' = <<1>>
    /\ papers' = <<>>
    /\ k' = 0
    /\ seed' = None
    /\ passed' = TRUE
    /\ assignments' = EmptyMap
    /\ load' = <<>>
    /\ rng' = EntropyRng
    /\ idx' = 0
    /\ outcome' = "none"
    /\ start' = EmptyMap
    /\ first' = NoRun
    /\ UNCHANGED default

Next ==
    CallWithMap \/ CallWithDefault \/ CallAgain \/ Iterate \/ Return \/ Finish

Spec == Init /\ [][Next]_vars

\* ---- properties ---------------------------------------------------------------
Returned == pc = "done" /\ outcome = "returned"

\* The reviewers a paper has in a dictionary (none when it is not held).
ListOf(asg, p) == IF p \in DOMAIN asg THEN asg[p] ELSE <<>>

\* Number of times member m is listed in the dictionary.
Occurrences(m, asg) ==
    Cardinality(UNION {{<<p, i>> : i \in {j \in 1..Len(asg[p]) : asg[p][j] = m}} :
                          p \in DOMAIN asg})

\* Number of papers of the dictionary that list member m.
PapersListing(m, asg) == Cardinality({p \in DOMAIN asg : m \in Range(asg[p])})

CeilDiv(a, n) == (a + n - 1) \div n

\* C1: when assign returns, every paper of the paper list has exactly k
\* reviewers in the returned dictionary, pairwise distinct and all members
\* of the pool.
C1_ExactlyKDistinct ==
    Returned =>
        \A p \in Range(papers) :
            /\ p \in DOMAIN assignments
            /\ Len(assignments[p]) = k
            /\ IsInjective(assignments[p])
            /\ Range(assignments[p]) \subseteq Range(pc_members)

\* C2: a call with len(pool) < k ends in the error of validate_inputs, and
\* the dictionary it was made on is as it was before the call.
C2_ValidationFailureNoMutation ==
    (pc # "idle" /\ Len(pc_members) < k) =>
        /\ pc = "done"
        /\ outcome = "ValueError:validate"
        /\ assignments = start
        /\ (~passed => default = start)

C2_Witness ==
    /\ pc = "done"
    /\ outcome = "ValueError:validate"
    /\ Len(pc_members) < k
    /\ start # EmptyMap
    /\ papers # <<>>

\* C3: a run repeated with the same pool, papers, k, seed (not None) and an
\* equal starting dictionary ends as the first run did, with the same
\* dictionary.
C3_SeededRunsAgree ==
    (pc = "done" /\ first # NoRun) =>
        /\ outcome = first.outcome
        /\ assignments = first.result

C3_Witness ==
    /\ Returned
    /\ first.outcome = "returned"
    /\ Len(pc_members) > k
    /\ Len(papers) = 2
    /\ papers[1] # papers[2]
    /\ \A p \in Range(papers) : Len(assignments[p]) > Len(ListOf(start, p))

\* C4 as stated: after assign has returned, no member of the pool is listed
\* by more than ceil(k * len(papers) / len(pool)) papers of the dictionary.
C4_LoadBound ==
    Returned =>
        \A m \in Range(pc_members) :
            PapersListing(m, assignments)
                <= CeilDiv(k * Len(papers), Len(pc_members))

\* C4 amended: the bound holds when the dictionary the call started from
\* listed no reviewer for any paper.
C4_LoadBoundFromEmpty ==
    (Returned /\ \A p \in DOMAIN start : start[p] = <<>>) =>
        \A m \in Range(pc_members) :
            PapersListing(m, assignments)
                <= CeilDiv(k * Len(papers), Len(pc_members))

C4_Witness ==
    /\ Returned
    /\ \A p \in DOMAIN start : start[p] = <<>>
    /\ Len(papers) = 2
    /\ papers[1] # papers[2]
    /\ \E m \in Range(pc_members) :
          /\ PapersListing(m, assignments) = 2
          /\ CeilDiv(k * Len(papers), Len(pc_members)) = 2
    /\ \E m \in Range(pc_members) : PapersListing(m, assignments) = 1

\* C5: a paper that had exactly k reviewers when the call was made has the
\* same sequence when assign returns; when every paper of the dictionary and
\* of the paper list had exactly k, the dictionary is returned unchanged.
C5_CompleteItemsUntouched ==
    Returned =>
        /\ \A p \in DOMAIN start :
              Len(start[p]) = k => assignments[p] = start[p]
        /\ ( ( /\ Range(papers) \subseteq DOMAIN start
               /\ \A p \in DOMAIN start : Len(start[p]) = k )
             => assignments = start )

C5_Witness ==
    /\ Returned
    /\ papers # <<>>
    /\ Range(papers) \subseteq DOMAIN start
    /\ \A p \in DOMAIN start : Len(start[p]) = k
    /\ Len(pc_members) > k

\* C6: once validation has passed, the call raises nothing: it returns, after
\* exactly len(papers) iterations of the loop.
C6_NoErrorAfterValidation ==
    (pc = "done" /\ Len(pc_members) >= k) =>
        /\ outcome = "returned"
        /\ idx = Len(papers)

\* C7: a call that passes no dictionary starts from an empty one, and what
\* it returns holds only papers of its own paper list.
C7_DefaultCallStartsEmpty ==
    (pc # "idle" /\ ~passed) =>
        /\ start = EmptyMap
        /\ (Returned => DOMAIN assignments \subseteq Range(papers))

\* C8: in every iteration of the loop, the load of each member equals the
\* number of times the dictionary lists the member at that moment, and each
\* selected member has a load no greater than that of any member of the pool
\* that is not yet assigned to the paper and was not selected.
C8_LeastLoadedSelected ==
    [][ (pc = "loop" /\ idx' = idx + 1) =>
          LET paper    == papers[idx + 1]
              old      == ListOf(assignments, paper)
              new      == assignments'[paper]
              selected == SubSeq(new, Len(old) + 1, Len(new))
              eligible == Range(pc_members) \ Range(old)
          IN  /\ \A m \in Range(pc_members) :
                    load[m] = Occurrences(m, assignments)
              /\ \A m \in Range(selected) :
                    \A e \in eligible \ Range(selected) : load[m] <= load[e]
      ]_vars

\* The second of two different papers has just been given reviewers, one of
\* them with a load that was below that of a member left out.
C8_Witness ==
    /\ pc = "loop"
    /\ idx = 2
    /\ papers[1] # papers[2]
    /\ papers[2] \notin DOMAIN start
    /\ \E m \in Range(assignments[papers[2]]) :
          \E e \in Range(pc_members) \ Range(assignments[papers[2]]) :
              load[m] <= load[e]

\* C9: a paper of the paper list that had fewer than k reviewers when the
\* call was made has, when assign returns, those reviewers first, in their
\* order, then k - (their number) more, none of which it had before.
C9_PartialItemsExtended ==
    Returned =>
        \A p \in Range(papers) :
            LET old == ListOf(start, p)
                new == assignments[p]
            IN  Len(old) < k =>
                  /\ Len(new) = k
                  /\ SubSeq(new, 1, Len(old)) = old
                  /\ \A i \in (Len(old) + 1)..Len(new) : new[i] \notin Range(old)

C9_Witness ==
    /\ Returned
    /\ \E p \in Range(papers) \cap DOMAIN start :
          /\ Len(start[p]) > 0
          /\ Len(start[p]) < k

\* C10: a paper that had more than k reviewers when the call was made is not
\* given further reviewers, and lists no reviewer twice, when assign returns.
C10_OverfullNotExtended ==
    Returned =>
        \A p \in Range(papers) \cap DOMAIN start :
            Len(start[p]) > k =>
                /\ Len(assignments[p]) = Len(start[p])
                /\ IsInjective(assignments[p])
====
